---- MODULE Spec2Model ----
(***************************************************************************)
(* Model of the recommendation workers of fundamentos-ia                   *)
(* (src/unnamed/part_000: the stub worker, lines 1-203, and the worker     *)
(* that trains a real network, lines 205-514).                             *)
(*                                                                         *)
(* JavaScript numbers are modelled as extended rationals [n, d]:           *)
(*   d > 0   the finite value n/d in lowest terms,                         *)
(*   d = 0   n = 1 is +Infinity, n = -1 is -Infinity, n = 0 is NaN.        *)
(* Arithmetic is exact: float rounding (and the sign of zero) is not       *)
(* modelled.                                                               *)
(***************************************************************************)
EXTENDS Integers, Sequences, FiniteSets, TLC

VARIABLES
    nIn, nOut,                         \* normalize: arguments and result
    products, users, context, applied, \* encoding: inputs, context, last application
    variant, runs, globalCtx, model, outbox, recommends  \* worker state

vars == <<nIn, nOut, products, users, context, applied,
          variant, runs, globalCtx, model, outbox, recommends>>

normVars == <<nIn, nOut>>
encVars == <<products, users, context, applied>>
workerVars == <<variant, runs, globalCtx, model, outbox, recommends>>

----------------------------------------------------------------------------
(* Numbers *)

Abs(x) == IF x < 0 THEN -x ELSE x

Sign(x) == IF x < 0 THEN -1 ELSE IF x > 0 THEN 1 ELSE 0

RECURSIVE Gcd(_, _)
Gcd(a, b) == IF b = 0 THEN a ELSE Gcd(b, a % b)

Num(n, d) ==
    IF d = 0 THEN [n |-> Sign(n), d |-> 0]
    ELSE LET g == Gcd(Abs(n), Abs(d))
         IN  [n |-> (Sign(d) * n) \div g, d |-> Abs(d) \div g]

Int2Num(i) == [n |-> i, d |-> 1]

NaN == [n |-> 0, d |-> 0]

PosInf == [n |-> 1, d |-> 0]

NegInf == [n |-> -1, d |-> 0]

Zero == [n |-> 0, d |-> 1]

One == [n |-> 1, d |-> 1]

IsNaN(a) == a.d = 0 /\ a.n = 0

IsFinite(a) == a.d > 0

Neg(a) == [n |-> -a.n, d |-> a.d]

Add(a, b) ==
    IF IsNaN(a) \/ IsNaN(b) THEN NaN
    ELSE IF a.d = 0 /\ b.d = 0 THEN (IF a.n = b.n THEN a ELSE NaN)
    ELSE IF a.d = 0 THEN a
    ELSE IF b.d = 0 THEN b
    ELSE Num(a.n * b.d + b.n * a.d, a.d * b.d)

Sub(a, b) == Add(a, Neg(b))

Mul(a, b) == Num(a.n * b.n, a.d * b.d)

Div(a, b) ==
    IF IsNaN(a) \/ IsNaN(b) THEN NaN
    ELSE IF b.d = 0 THEN (IF a.d = 0 THEN NaN ELSE Zero)
    ELSE Mul(a, Num(b.d, b.n))

\* a <= b; every comparison with NaN is false
Leq(a, b) ==
    IF IsNaN(a) \/ IsNaN(b) THEN FALSE
    ELSE IF a.d = 0 /\ b.d = 0 THEN a.n <= b.n
    ELSE a.n * b.d <= b.n * a.d

\* JavaScript truthiness of a number: 0 and NaN are falsy
Truthy(a) == ~IsNaN(a) /\ a.n # 0

\* a || b
OrElse(a, b) == IF Truthy(a) THEN a ELSE b

\* Math.min(...s) and Math.max(...s): the empty list gives +Infinity / -Infinity
RECURSIVE MathMin(_)
MathMin(s) ==
    IF s = <<>> THEN PosInf
    ELSE LET r == MathMin(Tail(s))
         IN  IF IsNaN(Head(s)) \/ IsNaN(r) THEN NaN
             ELSE IF Leq(Head(s), r) THEN Head(s) ELSE r

RECURSIVE MathMax(_)
MathMax(s) ==
    IF s = <<>> THEN NegInf
    ELSE LET r == MathMax(Tail(s))
         IN  IF IsNaN(Head(s)) \/ IsNaN(r) THEN NaN
             ELSE IF Leq(r, Head(s)) THEN Head(s) ELSE r

RECURSIVE SumNum(_)
SumNum(s) == IF s = <<>> THEN Zero ELSE Add(Head(s), SumNum(Tail(s)))

----------------------------------------------------------------------------
(* Sequence helpers standing for Array.prototype.map / filter / Set *)

Range(s) == {s[i] : i \in 1..Len(s)}

\* [...new Set(s)]: the distinct elements in order of first appearance
RECURSIVE Uniq(_)
Uniq(s) ==
    IF s = <<>> THEN <<>>
    ELSE LET init == Uniq(SubSeq(s, 1, Len(s) - 1))
             last == s[Len(s)]
         IN  IF last \in Range(init) THEN init ELSE Append(init, last)

\* Object.fromEntries(list.map((x, index) => [x, index])): zero-based indices
IndexMap(s) == [x \in Range(s) |-> (CHOOSE i \in 1..Len(s) : s[i] = x) - 1]

\* obj[key]: <<value>> when the key is present, <<>> for undefined
Lookup(obj, key) == IF key \in DOMAIN obj THEN <<obj[key]>> ELSE <<>>

RECURSIVE Concat(_)
Concat(ss) == IF ss = <<>> THEN <<>> ELSE Head(ss) \o Concat(Tail(ss))

----------------------------------------------------------------------------
(* Feature encoding, shared by both workers *)

WEIGHTS == [category |-> Num(4, 10), color |-> Num(3, 10),
            price |-> Num(2, 10), age |-> Num(1, 10)]

NormalizeUnguarded(value, min, max) == Div(Sub(value, min), Sub(max, min))

normalize(value, min, max) ==
    Div(Sub(value, min), OrElse(Sub(max, min), One))


\* 2 + categories.length + colors.length, off by one (the age slot forgotten)
dimensionsOfNoAge(categories, colors) == 1 + Len(categories) + Len(colors)

\* (price + age = 2) + colors + categories
dimensionsOf(categories, colors) == 2 + Len(categories) + Len(colors)

\* Math.min(...list) as a library that answers 0 for the empty list
minOfZeroOnEmpty(list) == IF list = <<>> THEN Zero ELSE MathMin(list)

minOf(list) == MathMin(list)

maxOf(list) == MathMax(list)

\* every (user, purchase) pair, in forEach order
AllPurchases(us) == Concat([i \in 1..Len(us) |->
                       [j \in 1..Len(us[i].purchases) |->
                           [age |-> us[i].age, purchase |-> us[i].purchases[j]]]])

makeContext(ps, us) ==
    LET ages == [i \in 1..Len(us) |-> Int2Num(us[i].age)]
        prices == [i \in 1..Len(ps) |-> Int2Num(ps[i].price)]
        minAge == minOf(ages)
        maxAge == maxOf(ages)
        minPrice == minOf(prices)
        maxPrice == maxOf(prices)
        colors == Uniq([i \in 1..Len(ps) |-> ps[i].color])
        categories == Uniq([i \in 1..Len(ps) |-> ps[i].category])
        avgAge == Div(Add(minAge, maxAge), Int2Num(2))
        bought == AllPurchases(us)
        agesOf(name) == [k \in {k \in 1..Len(bought) : bought[k].purchase.name = name}
                            |-> bought[k].age]
        ageCounts(name) == Cardinality(DOMAIN agesOf(name))
        ageSums(name) ==
            LET f == agesOf(name)
                RECURSIVE Sum(_)
                Sum(S) == IF S = {} THEN 0
                          ELSE LET k == CHOOSE k \in S : TRUE
                               IN  f[k] + Sum(S \ {k})
            IN  Sum(DOMAIN f)
        avgOf(name) == IF ageCounts(name) # 0
                       THEN Div(Int2Num(ageSums(name)), Int2Num(ageCounts(name)))
                       ELSE avgAge
    IN  [products |-> ps,
         users |-> us,
         colorsIndex |-> IndexMap(colors),
         categoriesIndex |-> IndexMap(categories),
         minAge |-> minAge,
         maxAge |-> maxAge,
         minPrice |-> minPrice,
         maxPrice |-> maxPrice,
         productAvgAgeNorm |->
             [name \in {ps[i].name : i \in 1..Len(ps)} |->
                 normalize(avgOf(name), minAge, maxAge)],
         numCategories |-> Len(categories),
         numColors |-> Len(colors),
         dimensions |-> dimensionsOf(categories, colors)]

\* Results of calls that may throw: kind is "value", "undefined" or "throw"
Value(v) == [kind |-> "value", v |-> v]

Undefined == [kind |-> "undefined", v |-> <<>>]

Throw == [kind |-> "throw", v |-> <<>>]

\* tf.oneHot(index, length).cast("float32").mul(weight); index is <<i>> or <<>>.
\* tf.oneHot rejects a depth below 2 and an index that is not tensor-like; an
\* index outside 0..length-1 gives the all-zero vector.
oneHotWeighted(index, length, weight) ==
    IF length < 2 \/ index = <<>> THEN Throw
    ELSE Value([i \in 1..length |-> IF i - 1 = index[1] THEN weight ELSE Zero])

encodeProduct(product, ctx) ==
    LET price == Mul(normalize(Int2Num(product.price), ctx.minPrice, ctx.maxPrice),
                     WEIGHTS.price)
        known == Lookup(ctx.productAvgAgeNorm, product.name)
        age == Mul(IF known = <<>> THEN Num(1, 2) ELSE known[1], WEIGHTS.age)
        category == oneHotWeighted(Lookup(ctx.categoriesIndex, product.category),
                                   ctx.numCategories, WEIGHTS.category)
        color == oneHotWeighted(Lookup(ctx.colorsIndex, product.color),
                                ctx.numColors, WEIGHTS.color)
    IN  IF category.kind = "throw" \/ color.kind = "throw" THEN Throw
        ELSE Value(<<price, age>> \o category.v \o color.v)

\* tf.stack(vectors).mean(0)
MeanVector(vs) ==
    [c \in 1..Len(vs[1]) |->
        Div(SumNum([k \in 1..Len(vs) |-> vs[k][c]]), Int2Num(Len(vs)))]

encodeUser(user, ctx) ==
    IF Len(user.purchases) # 0
    THEN LET encoded == [k \in 1..Len(user.purchases) |->
                            encodeProduct(user.purchases[k], ctx)]
         IN  IF \E k \in 1..Len(encoded) : encoded[k].kind = "throw" THEN Throw
             ELSE LET mean == MeanVector([k \in 1..Len(encoded) |-> encoded[k].v])
                  IN  \* reshape([1, dimensions]) rejects a size mismatch
                      IF Len(mean) # ctx.dimensions THEN Throw ELSE Value(mean)
    ELSE Undefined

\* a label computed from the category instead of the product name
labelOfByCategory(user, product) ==
    \E k \in 1..Len(user.purchases) : user.purchases[k].category = product.category

\* user.purchases.some((purchase) => purchase.name === product.name ? 1 : 0)
labelOf(user, product) ==
    \E k \in 1..Len(user.purchases) : user.purchases[k].name = product.name

\* the inner loop building rows only for the products the user bought
rowsOfUserPositiveOnly(user, ctx) ==
    LET userVector == encodeUser(user, ctx)
        bought == SelectSeq(ctx.products, LAMBDA p : labelOf(user, p))
        productVectors == [j \in 1..Len(bought) |-> encodeProduct(bought[j], ctx)]
    IN  IF userVector.kind # "value" THEN Throw
        ELSE IF \E j \in 1..Len(productVectors) : productVectors[j].kind = "throw"
        THEN Throw
        ELSE Value([j \in 1..Len(bought) |->
                      [input |-> userVector.v \o productVectors[j].v,
                       label |-> labelOf(user, bought[j])]])

\* one user's pass of the outer forEach: encodeUser(user).dataSync(), then one
\* row per product. dataSync() on undefined throws a TypeError.
rowsOfUser(user, ctx) ==
    LET userVector == encodeUser(user, ctx)
        productVectors == [j \in 1..Len(ctx.products) |->
                              encodeProduct(ctx.products[j], ctx)]
    IN  IF userVector.kind # "value" THEN Throw
        ELSE IF \E j \in 1..Len(productVectors) : productVectors[j].kind = "throw"
        THEN Throw
        ELSE Value([j \in 1..Len(ctx.products) |->
                      [input |-> userVector.v \o productVectors[j].v,
                       label |-> labelOf(user, ctx.products[j])]])

\* tf.tensor2d(labels, [labels.length, 1]) of booleans: a bool tensor of 1 / 0
BoolTensor(labels) == [i \in 1..Len(labels) |-> IF labels[i] THEN 1 ELSE 0]

\* the users the outer loop visits: all of them in the stub worker (line 126),
\* those with purchases in the training worker (lines 331-332)
loopUsers(ctx, v) ==
    IF v = "real" THEN SelectSeq(ctx.users, LAMBDA u : Len(u.purchases) # 0)
    ELSE ctx.users

createTrainingData(ctx, v) ==
    LET visited == loopUsers(ctx, v)
        perUser == [i \in 1..Len(visited) |-> rowsOfUser(visited[i], ctx)]
    IN  IF \E i \in 1..Len(perUser) : perUser[i].kind = "throw" THEN Throw
        ELSE LET rows == Concat([i \in 1..Len(perUser) |-> perUser[i].v])
             IN  \* tf.tensor2d(inputs) without a shape rejects the empty list
                 IF rows = <<>> THEN Throw
                 ELSE Value([xs |-> [r \in 1..Len(rows) |-> rows[r].input],
                             ys |-> BoolTensor([r \in 1..Len(rows) |-> rows[r].label]),
                             inputDimension |-> ctx.dimensions * 2])


----------------------------------------------------------------------------
(* Inputs *)

MaxValue == 6

MaxProducts == 2

MaxUsers == 2

\* sequences over S of length at most n
RECURSIVE SeqsUpTo(_, _)
SeqsUpTo(S, n) ==
    IF n = 0 THEN {<<>>}
    ELSE LET shorter == SeqsUpTo(S, n - 1)
         IN  shorter \cup {Append(s, x) : s \in shorter, x \in S}

pA == [name |-> "a", category |-> "c1", color |-> "k1", price |-> 10]

pB == [name |-> "b", category |-> "c2", color |-> "k2", price |-> 30]

pC == [name |-> "c", category |-> "c1", color |-> "k2", price |-> 20]

\* purchase records that differ from the catalog: product "a" bought at another
\* price, a product of an unlisted category, a product with an unlisted name
pX == [name |-> "a", category |-> "c1", color |-> "k1", price |-> 5]

pY == [name |-> "y", category |-> "c9", color |-> "k1", price |-> 10]

pZ == [name |-> "z", category |-> "c1", color |-> "k1", price |-> 10]

CatalogPool == {pA, pB, pC}

PurchaseLists == {<<>>, <<pA, pB>>, <<pX>>, <<pY>>, <<pC, pZ>>}

Ages == {20, 40}

UserPool == {[age |-> a, purchases |-> l] : a \in Ages, l \in PurchaseLists}

NoOutcome == [kind |-> "none", v |-> <<>>]

NoApplication == [fn |-> "none"]

NormIdle == nIn = <<>> /\ nOut = NoOutcome

EncIdle == /\ products = <<>> /\ users = <<>>
           /\ context = NoOutcome /\ applied = NoApplication

WorkerIdle == /\ variant = "none" /\ runs = <<>> /\ globalCtx = NoOutcome
              /\ model = NoOutcome /\ outbox = <<>> /\ recommends = 0

----------------------------------------------------------------------------
(* normalize applied to integer arguments min <= value <= max *)

NormInit ==
    /\ nIn \in {[value |-> v, min |-> lo, max |-> hi] :
                   v \in 0..MaxValue, lo \in 0..MaxValue, hi \in 0..MaxValue}
    /\ nIn.min <= nIn.value /\ nIn.value <= nIn.max
    /\ nOut = NoOutcome
    /\ EncIdle /\ WorkerIdle

NormalizeStep ==
    /\ nOut.kind = "none"
    /\ nOut' = Value(normalize(Int2Num(nIn.value), Int2Num(nIn.min), Int2Num(nIn.max)))
    /\ UNCHANGED <<nIn, encVars, workerVars>>

NormNext == NormalizeStep

SpecNormalize == NormInit /\ [][NormNext]_vars

----------------------------------------------------------------------------
(* makeContext, encodeProduct, encodeUser and createTrainingData applied to
   catalogs and user lists drawn from the pools *)

EncInit ==
    /\ products \in SeqsUpTo(CatalogPool, MaxProducts)
    /\ users \in SeqsUpTo(UserPool, MaxUsers)
    /\ context = NoOutcome
    /\ applied = NoApplication
    /\ NormIdle /\ WorkerIdle

MakeContextStep ==
    /\ context.kind = "none"
    /\ context' = Value(makeContext(products, users))
    /\ UNCHANGED <<products, users, applied, normVars, workerVars>>

\* the records encodeProduct is called on: catalog products and purchases
EncodedRecords(ctx) ==
    Range(ctx.products) \cup
    UNION {Range(ctx.users[i].purchases) : i \in 1..Len(ctx.users)}

EncodeProductStep ==
    /\ context.kind = "value"
    /\ applied.fn = "none"
    /\ \E r \in EncodedRecords(context.v) :
          applied' = [fn |-> "encodeProduct", arg |-> r,
                      out |-> encodeProduct(r, context.v)]
    /\ UNCHANGED <<products, users, context, normVars, workerVars>>

EncodeUserStep ==
    /\ context.kind = "value"
    /\ applied.fn = "none"
    /\ \E i \in 1..Len(users) :
          applied' = [fn |-> "encodeUser", arg |-> users[i],
                      out |-> encodeUser(users[i], context.v)]
    /\ UNCHANGED <<products, users, context, normVars, workerVars>>

CreateTrainingDataStep ==
    /\ context.kind = "value"
    /\ applied.fn = "none"
    /\ \E v \in {"stub", "real"} :
          applied' = [fn |-> "createTrainingData", arg |-> v,
                      out |-> createTrainingData(context.v, v)]
    /\ UNCHANGED <<products, users, context, normVars, workerVars>>

EncNext ==
    \/ MakeContextStep
    \/ EncodeProductStep
    \/ EncodeUserStep
    \/ CreateTrainingDataStep

SpecEncode == EncInit /\ [][EncNext]_vars


----------------------------------------------------------------------------
(* The workers: self.onmessage dispatching to trainModel and recommend.
   variant is "stub" (lines 1-203) or "real" (lines 205-514). A run is one
   call of the async function trainModel; pc is where it is suspended. *)

MaxRuns == 2

MaxRecommends == 1

\* epochs of model.fit (100 in the source), cut down
Epochs == 2

\* the bodies /data/products.json may have
Catalogs == {<<pA, pB>>, <<pC>>}

\* the users lists of trainModel messages
MessageUsers == {<<[age |-> 20, purchases |-> <<pA>>]>>,
                 <<[age |-> 40, purchases |-> <<pA, pB>>],
                   [age |-> 20, purchases |-> <<>>]>>}

Suspended(r) == runs[r].pc \in {"fetch", "fit", "timer"}

\* outbox[r] is what run r has posted, in order: the part of the worker's
\* outbound stream that comes from run r
Post(r, msgs) == outbox' = [outbox EXCEPT ![r] = @ \o msgs]

\* postMessage({ type: progressUpdate, progress: { progress: p } })
ProgressUpdate(p) == [type |-> "progressUpdate", progress |-> p]

TrainingLog(epoch) == [type |-> "trainingLog", epoch |-> epoch]

TrainingComplete == [type |-> "trainingComplete"]

\* trainingComplete posted before the final progress update
completionMessagesSwapped == <<TrainingComplete, ProgressUpdate(100)>>

\* the two posts that end a run (lines 179-183 and 490-494)
completionMessages == <<ProgressUpdate(100), TrainingComplete>>

WorkerInit ==
    /\ variant \in {"stub", "real"}
    /\ runs = <<>>
    /\ globalCtx = NoOutcome
    /\ model = NoOutcome
    /\ outbox = <<>>
    /\ recommends = 0
    /\ NormIdle /\ EncIdle

\* onmessage with action trainModel: trainModel runs to its first await
OnMessageTrainModel ==
    /\ Len(runs) < MaxRuns
    /\ \E us \in MessageUsers :
          runs' = Append(runs, [pc |-> "fetch", users |-> us, epoch |-> 0,
                                data |-> NoOutcome])
    /\ outbox' = Append(outbox, <<ProgressUpdate(50)>>)
    /\ UNCHANGED <<variant, globalCtx, model, recommends, normVars, encVars>>

\* onmessage with action recommend: recommend(d.user, _globalCtx) only logs
OnMessageRecommend ==
    /\ recommends < MaxRecommends
    /\ recommends' = recommends + 1
    /\ UNCHANGED <<variant, runs, globalCtx, model, outbox, normVars, encVars>>

\* the fetch is rejected (or its body is not JSON): the run ends there
FetchReject(r) ==
    /\ runs[r].pc = "fetch"
    /\ runs' = [runs EXCEPT ![r].pc = "failed"]
    /\ UNCHANGED <<variant, globalCtx, model, outbox, recommends, normVars, encVars>>

\* products.map((product) => encodeProduct(product, context))
encodeCatalog(ctx) ==
    [j \in 1..Len(ctx.products) |-> encodeProduct(ctx.products[j], ctx)]

\* context.productVectors = products.map(...): name, meta and vector of each
withProductVectors(ctx, vectors) ==
    ("productVectors" :>
        [j \in 1..Len(ctx.products) |->
            [name |-> ctx.products[j].name, meta |-> ctx.products[j],
             vector |-> vectors[j].v]]) @@ ctx

\* the fetch resolves: trainModel continues to its next await, or to its end.
\* Each value is bound once, in the order the code computes it.
FetchResolve(r) ==
    /\ runs[r].pc = "fetch"
    /\ \E catalog \in Catalogs :
       \E ctx0 \in {makeContext(catalog, runs[r].users)} :
       \E vectors \in {encodeCatalog(ctx0)} :
          IF \E j \in 1..Len(vectors) : vectors[j].kind = "throw"
          THEN /\ runs' = [runs EXCEPT ![r].pc = "failed"]
               /\ UNCHANGED <<globalCtx, outbox>>
          ELSE \E ctx \in {withProductVectors(ctx0, vectors)} :
               \E trainingData \in {createTrainingData(ctx, variant)} :
                  /\ globalCtx' = Value(ctx)
                  /\ IF trainingData.kind = "throw"
                     THEN /\ runs' = [runs EXCEPT ![r].pc = "failed"]
                          /\ UNCHANGED outbox
                     ELSE IF variant = "stub"
                     THEN /\ Post(r, <<TrainingLog(1)>>)
                          /\ runs' = [runs EXCEPT ![r].pc = "timer",
                                                  ![r].data = trainingData]
                     ELSE /\ runs' = [runs EXCEPT ![r].pc = "fit",
                                                  ![r].data = trainingData]
                          /\ UNCHANGED outbox
    /\ UNCHANGED <<variant, model, recommends, normVars, encVars>>

\* model.fit ends an epoch and calls onEpochEnd
OnEpochEnd(r) ==
    /\ runs[r].pc = "fit"
    /\ runs[r].epoch < Epochs
    /\ Post(r, <<TrainingLog(runs[r].epoch)>>)
    /\ runs' = [runs EXCEPT ![r].epoch = @ + 1]
    /\ UNCHANGED <<variant, globalCtx, model, recommends, normVars, encVars>>

\* model.fit resolves: _model = the model fitted to the run's training data
FitResolve(r) ==
    /\ runs[r].pc = "fit"
    /\ runs[r].epoch = Epochs
    /\ model' = Value([trainedOn |-> runs[r].data.v])
    /\ Post(r, completionMessages)
    /\ runs' = [runs EXCEPT ![r].pc = "done"]
    /\ UNCHANGED <<variant, globalCtx, recommends, normVars, encVars>>

\* the stub worker's setTimeout callback
TimerFire(r) ==
    /\ runs[r].pc = "timer"
    /\ Post(r, completionMessages)
    /\ runs' = [runs EXCEPT ![r].pc = "done"]
    /\ UNCHANGED <<variant, globalCtx, model, recommends, normVars, encVars>>

Next ==
    \/ OnMessageTrainModel
    \/ OnMessageRecommend
    \/ \E r \in 1..Len(runs) : FetchReject(r)
    \/ \E r \in 1..Len(runs) : FetchResolve(r)
    \/ \E r \in 1..Len(runs) : OnEpochEnd(r)
    \/ \E r \in 1..Len(runs) : FitResolve(r)
    \/ \E r \in 1..Len(runs) : TimerFire(r)

Init == WorkerInit

Spec == Init /\ [][Next]_vars

----------------------------------------------------------------------------
(* Properties of normalize (SpecNormalize) *)

InUnitRange(x) == Leq(Zero, x) /\ Leq(x, One)

\* C2 as stated: for min <= value <= max, normalize(value, min, max) lies in
\* [0,1], normalize(min, min, max) = 0 and normalize(max, min, max) = 1, the
\* case min = max included.
C2_NormalizeMinMaxAlways ==
    nOut.kind = "value" =>
        /\ InUnitRange(nOut.v)
        /\ (nIn.value = nIn.min => nOut.v = Zero)
        /\ (nIn.value = nIn.max => nOut.v = One)

\* C2 amended: the result lies in [0,1] and min maps to 0; max maps to 1 when
\* min < max, and to 0 when min = max (the denominator falls back to 1).
C2_NormalizeUnitRange ==
    nOut.kind = "value" =>
        /\ InUnitRange(nOut.v)
        /\ (nIn.value = nIn.min => nOut.v = Zero)
        /\ (nIn.value = nIn.max /\ nIn.min < nIn.max => nOut.v = One)
        /\ (nIn.min = nIn.max => nOut.v = Zero)

C2_Witness ==
    /\ nOut.kind = "value"
    /\ nIn.min = nIn.max
    /\ nIn.min > 0

----------------------------------------------------------------------------
(* Properties of the encoding (SpecEncode) *)

Applied(fn) == applied.fn = fn

Returned(fn) == applied.fn = fn /\ applied.out.kind = "value"

HasPurchases(u) == Len(u.purchases) # 0

Buyers == SelectSeq(users, HasPurchases)

Holding(v, from, to, x) == {i \in from..to : v[i] = x}

\* C3: for every record passed to encodeProduct (catalog products and
\* purchase records alike), the category segment has exactly one position
\* equal to WEIGHTS.category and the rest 0, and the color segment exactly one
\* position equal to WEIGHTS.color and the rest 0. Stated for the contexts of
\* catalogs with at least two categories and two colors.
C3_OneHotSegments ==
    (Applied("encodeProduct") /\ context.v.numCategories >= 2
                              /\ context.v.numColors >= 2) =>
        /\ applied.out.kind = "value"
        /\ LET v == applied.out.v
               nc == context.v.numCategories
               nk == context.v.numColors
           IN  /\ Len(v) = 2 + nc + nk
               /\ Cardinality(Holding(v, 3, 2 + nc, WEIGHTS.category)) = 1
               /\ Cardinality(Holding(v, 3, 2 + nc, Zero)) = nc - 1
               /\ Cardinality(Holding(v, 3 + nc, 2 + nc + nk, WEIGHTS.color)) = 1
               /\ Cardinality(Holding(v, 3 + nc, 2 + nc + nk, Zero)) = nk - 1

\* C4: the vector encodeProduct returns has length context.dimensions
\* = 2 + number of categories + number of colors, the vector encodeUser returns
\* has the same length, and every row of createTrainingData has length
\* inputDimension = 2 * context.dimensions.
C4_Dimensions ==
    LET dims == 2 + Cardinality({products[i].category : i \in 1..Len(products)})
                  + Cardinality({products[i].color : i \in 1..Len(products)})
    IN  /\ context.kind = "value" => context.v.dimensions = dims
        /\ Returned("encodeProduct") => Len(applied.out.v) = dims
        /\ Returned("encodeUser") => Len(applied.out.v) = dims
        /\ Returned("createTrainingData") =>
              /\ applied.out.v.inputDimension = 2 * dims
              /\ \A r \in 1..Len(applied.out.v.xs) :
                    Len(applied.out.v.xs[r]) = 2 * dims

C4_Witness ==
    /\ Returned("createTrainingData")
    /\ Len(applied.out.v.xs) >= 4
    /\ context.v.dimensions = 6

\* C5: the row of (user, product) is labelled 1 if some purchase of the user
\* is that product (by name) and 0 otherwise, and its input is the user's
\* mean purchase vector followed by the product's vector.
C5_LabelsAndInputs ==
    Returned("createTrainingData") =>
        \A i \in 1..Len(Buyers), j \in 1..Len(products) :
            LET r == (i - 1) * Len(products) + j
                names == {Buyers[i].purchases[k].name :
                             k \in 1..Len(Buyers[i].purchases)}
            IN  /\ r <= Len(applied.out.v.xs)
                /\ applied.out.v.ys[r] = (IF products[j].name \in names THEN 1 ELSE 0)
                /\ applied.out.v.xs[r] =
                      encodeUser(Buyers[i], context.v).v \o
                      encodeProduct(products[j], context.v).v

C5_Witness ==
    /\ Returned("createTrainingData")
    /\ \E r \in 1..Len(applied.out.v.ys) : applied.out.v.ys[r] = 1
    /\ \E r \in 1..Len(applied.out.v.ys) : applied.out.v.ys[r] = 0
    /\ Len(Buyers) = 2

\* C7 as stated: makeContext called with an empty users list or an empty
\* products list ends in an error and returns no context.
C7_EmptyListFails ==
    (context.kind # "none" /\ (users = <<>> \/ products = <<>>)) =>
        context.kind = "throw"

\* C7 amended: makeContext does not fail on an empty list; it returns a
\* context whose minAge is +Infinity and maxAge -Infinity when users is empty,
\* and whose minPrice is +Infinity and maxPrice -Infinity when products is.
C7_EmptyListGivesInfiniteBounds ==
    context.kind # "none" =>
        /\ context.kind = "value"
        /\ users = <<>> =>
              context.v.minAge = PosInf /\ context.v.maxAge = NegInf
        /\ products = <<>> =>
              context.v.minPrice = PosInf /\ context.v.maxPrice = NegInf

C7_Witness ==
    /\ context.kind = "value"
    /\ users = <<>>
    /\ products # <<>>

\* C8: every component of the vectors encodeProduct and encodeUser return
\* lies in [0,1], for catalog products and purchase records alike. Stated for
\* contexts built from a non-empty catalog and a non-empty users list.
C8_ComponentsInUnitRange ==
    ((Returned("encodeProduct") \/ Returned("encodeUser"))
        /\ users # <<>> /\ products # <<>>) =>
        \A c \in 1..Len(applied.out.v) : InUnitRange(applied.out.v[c])

----------------------------------------------------------------------------
(* Properties of the workers (Spec) *)

HandlerStarts == Len(runs') > Len(runs) \/ recommends' > recommends

\* C6: no handler (trainModel or recommend) for a later message starts while
\* the trainModel run of an earlier message is suspended at its fetch, at
\* model.fit or at its timer.
C6_NoHandlerWhileRunSuspended ==
    [][HandlerStarts => ~(\E r \in 1..Len(runs) : Suspended(r))]_vars

IsProgress(m, p) == m.type = "progressUpdate" /\ m.progress = p

\* <<progress 50>> \o logs \o <<progress 100, trainingComplete>>, or a prefix
InRunOrder(s) ==
    /\ s # <<>> => IsProgress(s[1], 50)
    /\ \A i \in 2..Len(s) :
          \/ s[i].type = "trainingLog" /\
                (s[i - 1].type = "trainingLog" \/ IsProgress(s[i - 1], 50))
          \/ IsProgress(s[i], 100) /\
                (s[i - 1].type = "trainingLog" \/ IsProgress(s[i - 1], 50))
          \/ s[i].type = "trainingComplete" /\ IsProgress(s[i - 1], 100)
                /\ i = Len(s)

\* C9: each run posts progress 50 first, then its trainingLog messages, then
\* progress 100, then trainingComplete as its last message; no trainingLog
\* follows the run's trainingComplete, which is posted at most once; a run
\* that is done has posted all of them.
C9_RunMessageOrder ==
    \A r \in 1..Len(runs) :
        LET s == outbox[r]
            logs == SelectSeq(s, LAMBDA m : m.type = "trainingLog")
        IN  /\ InRunOrder(s)
            /\ runs[r].pc = "done" =>
                  /\ s[Len(s)].type = "trainingComplete"
                  /\ Len(logs) = (IF variant = "real" THEN Epochs ELSE 1)
                  /\ Len(s) = Len(logs) + 3
            /\ runs[r].pc # "done" =>
                  \A i \in 1..Len(s) : s[i].type # "trainingComplete"

C9_Witness ==
    /\ variant = "real"
    /\ Len(runs) = 2
    /\ runs[2].pc = "done"
    /\ runs[1].pc = "fit" /\ runs[1].epoch = 1

\* C10: in the training worker, whenever _model is non-null it is the model
\* trained on the training data derived from the context held in _globalCtx.
C10_ModelMatchesContext ==
    (variant = "real" /\ model.kind = "value") =>
        /\ globalCtx.kind = "value"
        /\ createTrainingData(globalCtx.v, "real") = Value(model.v.trainedOn)

====
